---------------------------- MODULE Spec2Model ----------------------------
(***************************************************************************)
(* Model of the maze game (src/maze_game.py): the recursive-backtracking   *)
(* MazeGenerator, the Player, and the MazeGame session (manual moves, auto *)
(* steps driven by an external oracle, mode toggle, regeneration) with its *)
(* loop detector.                                                          *)
(*                                                                         *)
(* A cell is a pair <<x, y>>.  The grid maze[<<x, y>>] is TRUE for a wall  *)
(* and FALSE for a passage, as self.maze[y][x] in the source.              *)
(***************************************************************************)
EXTENDS Integers, Sequences, FiniteSets, TLC

VARIABLES
    width, height,        \* MazeGenerator.width / .height (= MazeGame.maze_width / maze_height)
    maze,                 \* MazeGenerator.maze: cell -> BOOLEAN, TRUE = wall
    visited,              \* MazeGenerator.visited: cell -> BOOLEAN
    stack,                \* the local `stack` of generate()
    gen_pc,               \* position inside generate(): "new", "loop", "done"; "error" once it raised
    carved,               \* number of remove_wall calls made by generate()
    player,               \* <<Player.x, Player.y>>
    move_history,         \* MazeGame.move_history
    step_count,           \* MazeGame.step_count
    won,                  \* MazeGame.won
    auto_mode,            \* MazeGame.auto_mode
    llm_client,           \* TRUE iff MazeGame.llm_client is not None
    running,              \* MazeGame.running
    now,                  \* the value time.time() returns, in seconds
    last_llm_call_time,   \* MazeGame.last_llm_call_time
    oracle_calls,         \* number of llm_client.get_next_move calls made
    last_op,              \* record describing the last handler that ran
    loop_result,          \* <<b>> when detect_loop() returned b on move_history, else <<>>
    query_log,            \* the query calls made since the last change of state, with their results
    auto_starts           \* the clock readings of the last two auto steps that got past the interval check

gen_vars  == <<width, height, maze, visited, stack, gen_pc, carved>>
game_vars == <<player, move_history, step_count, won, auto_mode, llm_client,
               running, now, last_llm_call_time, oracle_calls, last_op>>
vars      == <<width, height, maze, visited, stack, gen_pc, carved,
               player, move_history, step_count, won, auto_mode, llm_client,
               running, now, last_llm_call_time, oracle_calls, last_op,
               loop_result, query_log, auto_starts>>

(***************************************************************************)
(* Bounds of the model.  A dimension is 2*k + 1 for a half-size k, so that *)
(* every dimension the model draws is odd.                                 *)
(***************************************************************************)
MaxGenHalf == 3           \* generator runs: width, height in {3, 5, 7}

MaxSteps == 8             \* moves are taken while step_count < MaxSteps

MaxTime == 2              \* the clock stops advancing at MaxTime seconds

MaxLoopLen == 9           \* histories handed to detect_loop alone: up to 9 entries

Abs(n) == IF n < 0 THEN -n ELSE n

Manhattan(p, q) == Abs(p[1] - q[1]) + Abs(p[2] - q[2])

Last(s) == s[Len(s)]

Front(s) == SubSeq(s, 1, Len(s) - 1)

Min(S) == CHOOSE m \in S : \A n \in S : m <= n

Max(S) == CHOOSE m \in S : \A n \in S : m >= n

SeqToSet(s) == {s[i] : i \in 1..Len(s)}

Cells(w, h) == (0..(w - 1)) \X (0..(h - 1))

(***************************************************************************)
(* MazeGenerator                                                           *)
(***************************************************************************)
\* MazeGenerator.__init__: every cell a wall, nothing visited.
AllWalls(w, h) == [c \in Cells(w, h) |-> TRUE]

NoneVisited(w, h) == [c \in Cells(w, h) |-> FALSE]

is_valid(w, h, x, y) == 0 <= x /\ x < w /\ 0 <= y /\ y < h

\* The stride-2 offsets get_neighbors iterates over, in source order.
NeighborDeltas == << <<0, -2>>, <<0, 2>>, <<-2, 0>>, <<2, 0>> >>

\* A variant of get_neighbors that leaves out the offset to the right.
get_neighbors_NoRight(w, h, vis, x, y) ==
    LET cand == [i \in 1..3 |-> <<x + NeighborDeltas[i][1], y + NeighborDeltas[i][2]>>]
    IN  SelectSeq(cand, LAMBDA c : is_valid(w, h, c[1], c[2]) /\ ~vis[c])

\* get_neighbors: the unvisited in-bounds cells two steps away, in source order.
get_neighbors(w, h, vis, x, y) ==
    LET cand == [i \in 1..4 |-> <<x + NeighborDeltas[i][1], y + NeighborDeltas[i][2]>>]
    IN  SelectSeq(cand, LAMBDA c : is_valid(w, h, c[1], c[2]) /\ ~vis[c])

\* The grid (or visited matrix) m with the entry of cell c set to v.
SetCell(m, c, v) == [d \in DOMAIN m |-> IF d = c THEN v ELSE m[d]]

\* A variant of remove_wall that clears the first cell instead of the midpoint.
remove_wall_FirstCell(mz, x1, y1, x2, y2) == SetCell(mz, <<x1, y1>>, FALSE)

\* remove_wall: clears the cell midway between the two cells (floor division).
remove_wall(mz, x1, y1, x2, y2) ==
    SetCell(mz, <<(x1 + x2) \div 2, (y1 + y2) \div 2>>, FALSE)

\* A variant of lines 65-68 that moves an odd start coordinate to the even
\* one before it.
OddStart_Even(s) == IF s % 2 = 1 THEN s - 1 ELSE s

\* generate(), lines 65-68: an even start coordinate is moved to the next odd one.
OddStart(s) == IF s % 2 = 0 THEN s + 1 ELSE s

\* A variant of lines 93-95 that stores the wall flag in both endpoints.
ForceEndpoints_Walls(w, h, mz) ==
    SetCell(SetCell(mz, <<1, 1>>, TRUE), <<w - 2, h - 2>>, TRUE)

\* generate(), lines 93-95: start and goal are forced to be passages.
ForceEndpoints(w, h, mz) ==
    SetCell(SetCell(mz, <<1, 1>>, FALSE), <<w - 2, h - 2>>, FALSE)

\* A variant of is_wall that indexes the grid without the bounds test, the
\* index wrapping around as a negative Python index does.
is_wall_Unchecked(w, h, mz, x, y) == mz[<<x % w, y % h>>]

is_wall(w, h, mz, x, y) ==
    IF ~is_valid(w, h, x, y) THEN TRUE ELSE mz[<<x, y>>]


\* One carving step of the while loop (lines 79-88) from the stack top towards
\* the chosen unvisited neighbour n: the generator fields after the step.
CarveTo(mz, vis, st, n) ==
    LET top == Last(st)
        m1  == remove_wall(mz, top[1], top[2], n[1], n[2])
    IN  [maze    |-> SetCell(m1, n, FALSE),
         visited |-> SetCell(vis, n, TRUE),
         stack   |-> Append(st, n)]

\* generate() run to completion from a loop state: the set of results over
\* every outcome of random.choice.  Each result is the final grid, the final
\* visited matrix and the number of remove_wall calls.
RECURSIVE RunLoop(_, _, _, _, _, _)
RunLoop(w, h, mz, vis, st, n) ==
    IF st = <<>>
    THEN {[maze |-> ForceEndpoints(w, h, mz), visited |-> vis, carved |-> n]}
    ELSE LET top == Last(st)
             nb  == get_neighbors(w, h, vis, top[1], top[2])
         IN  IF nb # <<>>
             THEN UNION {LET g == CarveTo(mz, vis, st, nb[i])
                         IN  RunLoop(w, h, g.maze, g.visited, g.stack, n + 1)
                         : i \in 1..Len(nb)}
             ELSE RunLoop(w, h, mz, vis, Front(st), n)

\* MazeGenerator(w, h) followed by generate() with the default start (1, 1).
Generate(w, h) ==
    LET s == <<OddStart(1), OddStart(1)>>
    IN  RunLoop(w, h, SetCell(AllWalls(w, h), s, FALSE),
                SetCell(NoneVisited(w, h), s, TRUE), <<s>>, 0)

(***************************************************************************)
(* The generator as a step machine: one action per loop iteration.         *)
(***************************************************************************)
GenDims == {2 * k + 1 : k \in 1..MaxGenHalf}

\* The start arguments generate() is called with (the default is 1).
StartArgs == {0, 1}

\* Values of the session variables while only the generator is running.
GameAbsent ==
    /\ player = <<1, 1>>
    /\ move_history = << <<1, 1>> >>
    /\ step_count = 0
    /\ won = FALSE
    /\ auto_mode = FALSE
    /\ llm_client = FALSE
    /\ running = FALSE
    /\ now = 0
    /\ last_llm_call_time = 0
    /\ oracle_calls = 0
    /\ last_op = [op |-> "none", branch |-> "none", fallback |-> "none"]
    /\ loop_result = <<>>
    /\ query_log = <<>>
    /\ auto_starts = <<>>

\* MazeGenerator.__init__
GenInit ==
    /\ width \in GenDims
    /\ height \in GenDims
    /\ maze = AllWalls(width, height)
    /\ visited = NoneVisited(width, height)
    /\ stack = <<>>
    /\ gen_pc = "new"
    /\ carved = 0
    /\ GameAbsent

\* generate(), lines 65-73
GenStart ==
    /\ gen_pc = "new"
    /\ \E sx \in StartArgs, sy \in StartArgs :
         LET s == <<OddStart(sx), OddStart(sy)>>
         IN  /\ is_valid(width, height, s[1], s[2])
             /\ stack' = <<s>>
             /\ visited' = SetCell(visited, s, TRUE)
             /\ maze' = SetCell(maze, s, FALSE)
    /\ gen_pc' = "loop"
    /\ UNCHANGED <<width, height, carved, game_vars, loop_result, query_log, auto_starts>>

\* generate(), lines 76-88: the stack top has an unvisited neighbour
GenCarve ==
    /\ gen_pc = "loop"
    /\ stack # <<>>
    /\ LET top == Last(stack)
           nb  == get_neighbors(width, height, visited, top[1], top[2])
       IN  /\ nb # <<>>
           /\ \E i \in 1..Len(nb) :
                LET g == CarveTo(maze, visited, stack, nb[i])
                IN  /\ maze' = g.maze
                    /\ visited' = g.visited
                    /\ stack' = g.stack
    /\ carved' = carved + 1
    /\ UNCHANGED <<width, height, gen_pc, game_vars, loop_result, query_log, auto_starts>>

\* A variant of the backtracking step that never pops the last stack entry.
GenBacktrack_KeepsStart ==
    /\ gen_pc = "loop"
    /\ stack # <<>>
    /\ LET top == Last(stack)
       IN  get_neighbors(width, height, visited, top[1], top[2]) = <<>>
    /\ stack' = IF Len(stack) > 1 THEN Front(stack) ELSE stack
    /\ UNCHANGED <<width, height, maze, visited, gen_pc, carved, game_vars, loop_result, query_log, auto_starts>>

\* generate(), lines 76-77 and 89-91: no unvisited neighbour, backtrack
GenBacktrack ==
    /\ gen_pc = "loop"
    /\ stack # <<>>
    /\ LET top == Last(stack)
       IN  get_neighbors(width, height, visited, top[1], top[2]) = <<>>
    /\ stack' = Front(stack)
    /\ UNCHANGED <<width, height, maze, visited, gen_pc, carved, game_vars, loop_result, query_log, auto_starts>>

\* generate(), lines 75 and 93-95: the loop ends, the endpoints are forced open
GenFinish ==
    /\ gen_pc = "loop"
    /\ stack = <<>>
    /\ maze' = ForceEndpoints(width, height, maze)
    /\ gen_pc' = "done"
    /\ UNCHANGED <<width, height, visited, stack, carved, game_vars, loop_result, query_log, auto_starts>>

\* The coordinates is_wall is called with: two beyond the grid on either side.
IsWallArgs(n) == (0 - 2)..(n + 1)

\* maze_generator.is_wall(x, y) called on the finished grid; the call and its
\* return value are logged.  One call is explored per finished grid.
IsWallCall(x, y) ==
    /\ gen_pc = "done"
    /\ query_log = <<>>
    /\ auto_starts = <<>>
    /\ query_log' = << [name |-> "is_wall", args |-> <<x, y>>,
                        result |-> <<is_wall(width, height, maze, x, y)>>] >>
    /\ UNCHANGED <<auto_starts, gen_vars, game_vars, loop_result>>

GenNext ==
    \/ GenStart
    \/ GenCarve
    \/ GenBacktrack
    \/ GenFinish
    \/ \E x \in IsWallArgs(width), y \in IsWallArgs(height) : IsWallCall(x, y)

SpecGen == GenInit /\ [][GenNext]_vars

\* One step of generate(): its initialisation, a loop iteration or its end.
GenStep == GenStart \/ GenCarve \/ GenBacktrack \/ GenFinish

\* generate() is straight-line code around one loop: once called it keeps
\* executing, whatever random.choice returns.
SpecGenFair == GenInit /\ [][GenNext]_vars /\ WF_vars(GenStep)

(***************************************************************************)
(* The generator constructed with any dimensions, even and tiny ones       *)
(* included.                                                               *)
(***************************************************************************)
\* The widths and heights MazeGenerator is constructed with.
AnyDims == 1..(2 * MaxGenHalf)

\* MazeGenerator.__init__: it stores whatever dimensions it is given.
DimsInit ==
    /\ width \in AnyDims
    /\ height \in AnyDims
    /\ maze = AllWalls(width, height)
    /\ visited = NoneVisited(width, height)
    /\ stack = <<>>
    /\ gen_pc = "new"
    /\ carved = 0
    /\ GameAbsent

\* generate(), lines 71-73, on a grid without the cell (start_x, start_y):
\* indexing the matrices raises IndexError.
GenStartFails ==
    /\ gen_pc = "new"
    /\ \E sx \in StartArgs, sy \in StartArgs :
         ~is_valid(width, height, OddStart(sx), OddStart(sy))
    /\ gen_pc' = "error"
    /\ UNCHANGED <<width, height, maze, visited, stack, carved, game_vars,
                   loop_result, query_log, auto_starts>>

DimsNext == GenNext \/ GenStartFails

SpecDims == DimsInit /\ [][DimsNext]_vars

(***************************************************************************)
(* Player and the pure queries of MazeGame                                 *)
(***************************************************************************)
\* A variant of Player.move that does not test the destination for a wall.
PlayerMove_ThroughWalls(w, h, mz, p, dx, dy) ==
    [moved |-> TRUE, player |-> <<p[1] + dx, p[2] + dy>>]

\* Player.move: the player after trying to move by (dx, dy), and whether it moved.
PlayerMove(w, h, mz, p, dx, dy) ==
    LET new_x == p[1] + dx
        new_y == p[2] + dy
    IN  IF ~is_wall(w, h, mz, new_x, new_y)
        THEN [moved |-> TRUE, player |-> <<new_x, new_y>>]
        ELSE [moved |-> FALSE, player |-> p]

\* The four directions in the order the source enumerates them.
DirNames == <<"UP", "DOWN", "LEFT", "RIGHT">>

DirDelta(d) ==
    CASE d = "UP"    -> <<0, -1>>
      [] d = "DOWN"  -> <<0, 1>>
      [] d = "LEFT"  -> <<-1, 0>>
      [] d = "RIGHT" -> <<1, 0>>

\* A variant of get_available_directions that reports all four directions.
get_available_directions_All(w, h, mz, p) == DirNames

\* get_available_directions: the names of the passable directions, in order.
get_available_directions(w, h, mz, p) ==
    SelectSeq(DirNames,
              LAMBDA d : ~is_wall(w, h, mz, p[1] + DirDelta(d)[1], p[2] + DirDelta(d)[2]))

\* get_unvisited_adjacent_positions: passable neighbours absent from the
\* history, in UP, DOWN, LEFT, RIGHT order.
get_unvisited_adjacent_positions(w, h, mz, p, hist) ==
    LET visited_set == SeqToSet(hist)
        adj == [i \in 1..4 |-> <<p[1] + DirDelta(DirNames[i])[1],
                                 p[2] + DirDelta(DirNames[i])[2]>>]
    IN  SelectSeq(adj, LAMBDA c : ~is_wall(w, h, mz, c[1], c[2]) /\ c \notin visited_set)

\* min(unvisited_adjacent, key = Manhattan distance to target): Python's min
\* returns the first element attaining the minimum.
BestPos(unv, target) ==
    LET best == Min({Manhattan(unv[i], target) : i \in 1..Len(unv)})
        first == Min({i \in 1..Len(unv) : Manhattan(unv[i], target) = best})
    IN  unv[first]

\* The default of detect_loop's lookback_steps parameter.
DefaultLookback == 8

\* Python's seq[-n:]: the last n entries (the whole list when n = 0).
Trailing(s, n) == IF n = 0 THEN s ELSE SubSeq(s, Len(s) - n + 1, Len(s))

\* A variant of the repetition check that wants a cell five times in the window.
RepetitionPattern_FiveRepeats(recent) ==
    LET n == Len(recent)
        count(c) == Cardinality({i \in 1..n : recent[i] = c})
        max_repeats == IF n = 0 THEN 0 ELSE Max({count(recent[i]) : i \in 1..n})
        last_4 == Trailing(recent, 4)
    IN  /\ max_repeats >= 5
        /\ n >= 6
        /\ last_4[1] = last_4[3]
        /\ last_4[2] = last_4[4]
        /\ last_4[1] # last_4[2]

\* detect_loop, lines 360-378: the repetition-pattern check on the window.
RepetitionPattern(recent) ==
    LET n == Len(recent)
        count(c) == Cardinality({i \in 1..n : recent[i] = c})
        max_repeats == IF n = 0 THEN 0 ELSE Max({count(recent[i]) : i \in 1..n})
        last_4 == Trailing(recent, 4)
        last_6 == Trailing(recent, 6)
    IN  /\ max_repeats >= 3
        /\ n >= 6
        /\ n >= 4
        /\ \/ /\ last_4[1] = last_4[3]
              /\ last_4[2] = last_4[4]
              /\ last_4[1] # last_4[2]
           \/ /\ n >= 6
              /\ last_6[1] = last_6[4]
              /\ last_6[2] = last_6[5]
              /\ last_6[3] = last_6[6]
              /\ Cardinality({last_6[1], last_6[2], last_6[3]}) = 3

\* A variant of the small-area check that is content with one small span.
Confinement_EitherAxis(recent) ==
    LET n == Len(recent)
        xs == {recent[i][1] : i \in 1..n}
        ys == {recent[i][2] : i \in 1..n}
    IN  /\ n >= 6
        /\ \/ Max(xs) - Min(xs) <= 2
           \/ Max(ys) - Min(ys) <= 2

\* A variant of the small-area check with spans of at most 1.
Confinement_SpanOne(recent) ==
    LET n == Len(recent)
        xs == {recent[i][1] : i \in 1..n}
        ys == {recent[i][2] : i \in 1..n}
    IN  /\ n >= 6
        /\ Max(xs) - Min(xs) <= 1
        /\ Max(ys) - Min(ys) <= 1

\* detect_loop, lines 380-389: the small-area check on the window.
Confinement(recent) ==
    LET n == Len(recent)
        xs == {recent[i][1] : i \in 1..n}
        ys == {recent[i][2] : i \in 1..n}
    IN  /\ n >= 6
        /\ Max(xs) - Min(xs) <= 2
        /\ Max(ys) - Min(ys) <= 2

detect_loop(hist, lookback_steps) ==
    IF Len(hist) < lookback_steps
    THEN FALSE
    ELSE LET recent_positions == Trailing(hist, lookback_steps)
         IN  RepetitionPattern(recent_positions) \/ Confinement(recent_positions)

\* The default of get_recent_movement_pattern's lookback_steps parameter.
DefaultPatternLookback == 6

\* get_recent_movement_pattern, lines 417-428: the name of the step from prev
\* to curr.
StepName(prev, curr) ==
    LET dx == curr[1] - prev[1]
        dy == curr[2] - prev[2]
    IN  IF dx = 0 /\ dy = 0 - 1 THEN "UP"
        ELSE IF dx = 0 /\ dy = 1 THEN "DOWN"
        ELSE IF dx = 0 - 1 /\ dy = 0 THEN "LEFT"
        ELSE IF dx = 1 /\ dy = 0 THEN "RIGHT"
        ELSE "UNKNOWN"

\* get_recent_movement_pattern: which of its four texts is returned, with the
\* step count and the direction names the text is formatted from.
get_recent_movement_pattern(hist, lookback_steps) ==
    IF Len(hist) < 2
    THEN [kind |-> "no_history", steps |-> 0, directions |-> <<>>]
    ELSE LET recent_steps == Min({lookback_steps, Len(hist)})
             recent_positions == Trailing(hist, recent_steps)
             directions == [i \in 1..(Len(recent_positions) - 1) |->
                               StepName(recent_positions[i], recent_positions[i + 1])]
             n == Len(directions)
         IN  IF /\ n >= 4
                /\ directions[n - 3] = directions[n - 1]
                /\ directions[n - 2] = directions[n]
                /\ directions[n - 3] # directions[n - 2]
             THEN [kind |-> "warning_last_4", steps |-> recent_steps,
                   directions |-> Trailing(directions, 4)]
             ELSE IF /\ n >= 4
                     /\ n >= 6
                     /\ directions[n - 5] = directions[n - 2]
                     /\ directions[n - 4] = directions[n - 1]
                     /\ directions[n - 3] = directions[n]
             THEN [kind |-> "warning_last_6", steps |-> recent_steps,
                   directions |-> Trailing(directions, 6)]
             ELSE [kind |-> "recent", steps |-> recent_steps, directions |-> directions]

\* A variant of move_to_position that refuses every cell that is not adjacent.
move_to_position_AdjacentOnly(w, h, mz, p, hist, steps, target) ==
    IF is_wall(w, h, mz, target[1], target[2]) \/ Manhattan(p, target) # 1
    THEN [moved |-> FALSE, player |-> p, move_history |-> hist, step_count |-> steps]
    ELSE [moved |-> TRUE, player |-> target,
          move_history |-> Append(hist, target), step_count |-> steps + 1]

\* A variant of move_to_position that accepts every target without testing it.
move_to_position_Unchecked(w, h, mz, p, hist, steps, target) ==
    [moved |-> TRUE, player |-> target,
     move_history |-> Append(hist, target), step_count |-> steps + 1]

\* A variant of move_to_position that counts a step for a rejected target.
move_to_position_CountsRejected(w, h, mz, p, hist, steps, target) ==
    IF is_wall(w, h, mz, target[1], target[2])
    THEN [moved |-> FALSE, player |-> p, move_history |-> hist, step_count |-> steps + 1]
    ELSE [moved |-> TRUE, player |-> target,
          move_history |-> Append(hist, target), step_count |-> steps + 1]

\* move_to_position: the navigation fields after the call, and its return value.
move_to_position(w, h, mz, p, hist, steps, target) ==
    IF is_wall(w, h, mz, target[1], target[2])
    THEN [moved |-> FALSE, player |-> p, move_history |-> hist, step_count |-> steps]
    ELSE LET dx == target[1] - p[1]
             dy == target[2] - p[2]
         IN  IF Abs(dx) + Abs(dy) # 1
             THEN \* not adjacent: the position is set directly (lines 313-318)
                  [moved |-> TRUE, player |-> target,
                   move_history |-> Append(hist, target), step_count |-> steps + 1]
             ELSE LET m == PlayerMove(w, h, mz, p, dx, dy)
                  IN  IF m.moved
                      THEN [moved |-> TRUE, player |-> m.player,
                            move_history |-> Append(hist, m.player),
                            step_count |-> steps + 1]
                      ELSE [moved |-> FALSE, player |-> p,
                            move_history |-> hist, step_count |-> steps]

(***************************************************************************)
(* MazeGame: the session                                                   *)
(***************************************************************************)
\* MazeGame.llm_call_interval, in seconds.
llm_call_interval == 1

\* A variant of the goal cell: the bottom-right corner of the grid.
EndPos_Corner(w, h) == <<w - 1, h - 1>>

\* (end_x, end_y)
EndPos(w, h) == <<w - 2, h - 2>>

\* Player(1, 1): (start_x, start_y).
StartPos == <<1, 1>>

\* A variant of Player.reset that leaves the player where it is.
player_reset_Stay(p) == p

\* Player.reset: back to (start_x, start_y).
player_reset(p) == StartPos

\* A variant of the interval check that lets every call through.
IntervalElapsed_Always(current_time, last_time) == TRUE

\* handle_auto_move, lines 450-453: the step goes on unless less than
\* llm_call_interval has passed since last_llm_call_time.
IntervalElapsed(current_time, last_time) ==
    ~(current_time - last_time < llm_call_interval)

\* What the oracle (llm_client.get_next_move) can answer: it raises, or it
\* returns a coordinate pair.  The pairs are drawn relative to the player: the
\* cell itself, the four neighbours and the four cells two steps away, which
\* covers walls, off-grid and negative coordinates, passages next to the
\* player and passages that are not adjacent.
ProposalOffsets ==
    {<<0, 0>>, <<0, -1>>, <<0, 1>>, <<-1, 0>>, <<1, 0>>,
     <<0, -2>>, <<0, 2>>, <<-2, 0>>, <<2, 0>>}

OracleAnswers(p) ==
    {[kind |-> "raise", pos |-> p]}
        \cup {[kind |-> "pos", pos |-> <<p[1] + d[1], p[2] + d[2]>>] : d \in ProposalOffsets}

\* A variant of the override test that never bypasses the oracle.
ForcedOverride_Never(is_looping, unvisited_adjacent) == FALSE

\* handle_auto_move, line 478: the oracle is bypassed when a loop is detected
\* and an unvisited adjacent cell exists.
ForcedOverride(is_looping, unvisited_adjacent) ==
    is_looping /\ unvisited_adjacent # <<>>

\* A variant of the except clause that recovers as if the proposal were
\* absent: it moves to the nearest unvisited adjacent cell.
RaiseOutcome_FallsBack(w, h, mz, p, hist, steps) ==
    LET unv == get_unvisited_adjacent_positions(w, h, mz, p, hist)
    IN  IF unv = <<>>
        THEN [player |-> p, move_history |-> hist, step_count |-> steps,
              called |-> TRUE, branch |-> "raise", fallback |-> "none"]
        ELSE LET r == move_to_position(w, h, mz, p, hist, steps, BestPos(unv, <<w - 2, h - 2>>))
             IN  [player |-> r.player, move_history |-> r.move_history,
                  step_count |-> r.step_count,
                  called |-> TRUE, branch |-> "raise", fallback |-> "unvisited"]

\* handle_auto_move, lines 554-557: get_next_move raised before anything was
\* changed; the except clause only records the call time.
RaiseOutcome(w, h, mz, p, hist, steps) ==
    [player |-> p, move_history |-> hist, step_count |-> steps,
     called |-> TRUE, branch |-> "raise", fallback |-> "none"]

\* The body of handle_auto_move after its two early returns (lines 455-557),
\* for the oracle answer `ans` and the index `pick` random.choice selects among
\* the available directions: the navigation fields after the step, whether the
\* oracle was called, and which branches were taken.
AutoMove(w, h, mz, p, hist, steps, ans, pick) ==
    LET target_pos == EndPos(w, h)
        available_directions == get_available_directions(w, h, mz, p)
        unvisited_adjacent == get_unvisited_adjacent_positions(w, h, mz, p, hist)
        is_looping == detect_loop(hist, DefaultLookback)
        forced == ForcedOverride(is_looping, unvisited_adjacent)
    IN  IF ~forced /\ ans.kind = "raise"
        THEN RaiseOutcome(w, h, mz, p, hist, steps)
        ELSE
        LET next_pos == IF forced THEN BestPos(unvisited_adjacent, target_pos) ELSE ans.pos
            r1 == move_to_position(w, h, mz, p, hist, steps, next_pos)
            br == IF forced THEN "override" ELSE "oracle"
        IN  IF r1.moved
            THEN [player |-> r1.player, move_history |-> r1.move_history,
                  step_count |-> r1.step_count,
                  called |-> ~forced, branch |-> br, fallback |-> "none"]
            ELSE IF unvisited_adjacent # <<>>
            THEN LET best_pos == BestPos(unvisited_adjacent, target_pos)
                     r2 == move_to_position(w, h, mz, r1.player, r1.move_history,
                                            r1.step_count, best_pos)
                 IN  [player |-> r2.player, move_history |-> r2.move_history,
                      step_count |-> r2.step_count,
                      called |-> ~forced, branch |-> br, fallback |-> "unvisited"]
            ELSE IF available_directions # <<>>
            THEN LET d == DirDelta(available_directions[pick])
                     m == PlayerMove(w, h, mz, r1.player, d[1], d[2])
                 IN  [player |-> m.player,
                      move_history |-> IF m.player \notin SeqToSet(r1.move_history)
                                       THEN Append(r1.move_history, m.player)
                                       ELSE r1.move_history,
                      step_count |-> r1.step_count + 1,
                      called |-> ~forced, branch |-> br, fallback |-> "random"]
            ELSE [player |-> r1.player, move_history |-> r1.move_history,
                  step_count |-> r1.step_count,
                  called |-> ~forced, branch |-> br, fallback |-> "stuck"]

\* The indices random.choice(available_directions) can select; the choice is
\* made only on the random fallback, which needs an empty unvisited list.
Picks(w, h, mz, p, hist) ==
    LET n == Len(get_available_directions(w, h, mz, p))
    IN  IF n = 0 \/ get_unvisited_adjacent_positions(w, h, mz, p, hist) # <<>>
        THEN {1}
        ELSE 1..n

\* The (maze_width, maze_height) pairs sessions are constructed with: the
\* one-cell maze, a corridor, and the smallest maze with a choice of carving.
GameDims == {<<3, 3>>, <<5, 3>>, <<5, 5>>}

\* MazeGenerator(w, h).generate() for every session size: the grids it can produce.
Generated == [d \in GameDims |-> Generate(d[1], d[2])]

\* The (auto_mode, llm_client present) pairs main() constructs the game with:
\* manual without a client, or auto with one.
StartModes == {<<FALSE, FALSE>>, <<TRUE, TRUE>>}

\* MazeGame.__init__: the state after construction.
Init ==
    /\ \E d \in GameDims : width = d[1] /\ height = d[2]
    /\ \E g \in Generated[<<width, height>>] :
         /\ maze = g.maze
         /\ visited = g.visited
         /\ carved = g.carved
    /\ stack = <<>>
    /\ gen_pc = "done"
    /\ player = StartPos
    /\ move_history = << <<1, 1>> >>
    /\ step_count = 0
    /\ won = FALSE
    /\ running = TRUE
    /\ \E m \in StartModes : auto_mode = m[1] /\ llm_client = m[2]
    /\ now = llm_call_interval
    /\ last_llm_call_time = 0
    /\ oracle_calls = 0
    /\ last_op = [op |-> "init", branch |-> "none", fallback |-> "none"]
    /\ loop_result = <<>>
    /\ query_log = <<>>
    /\ auto_starts = <<>>

\* A variant of the try block that lets the oracle's exception escape, which
\* ends run()'s loop.
ReturnsNormally_RaiseEscapes(branch) == branch # "raise"

\* handle_auto_move, lines 455 and 554: the whole body is one try block whose
\* except clause catches every Exception, so the handler returns to run()'s
\* loop on every branch.
ReturnsNormally(branch) == TRUE

\* handle_auto_move when the oracle, if it is asked, answers `ans`.
AutoStepWith(ans) ==
    /\ running
    /\ auto_mode /\ ~won /\ llm_client
    /\ IntervalElapsed(now, last_llm_call_time)
    /\ step_count < MaxSteps
    /\ \E pick \in Picks(width, height, maze, player, move_history) :
         \E r \in {AutoMove(width, height, maze, player, move_history, step_count, ans, pick)} :
             /\ player' = r.player
             /\ move_history' = r.move_history
             /\ step_count' = r.step_count
             /\ oracle_calls' = IF r.called THEN oracle_calls + 1 ELSE oracle_calls
             /\ won' = IF r.branch # "raise" /\ r.player = EndPos(width, height)
                       THEN TRUE ELSE won
             /\ last_op' = [op |-> "auto", branch |-> r.branch, fallback |-> r.fallback]
             /\ running' = (running /\ ReturnsNormally(r.branch))
    /\ last_llm_call_time' = now
    /\ auto_starts' = IF Len(auto_starts) = 2
                      THEN <<auto_starts[2], now>>
                      ELSE Append(auto_starts, now)
    /\ UNCHANGED <<gen_vars, auto_mode, llm_client, now, loop_result, query_log>>

\* handle_auto_move, called by run() when auto_mode is set.
handle_auto_move == \E ans \in OracleAnswers(player) : AutoStepWith(ans)

\* A variant of the test guarding the movement keys that ignores the won flag.
MoveKeysAccepted_AfterWin(w, a) == ~a

\* handle_events, line 583: the movement keys act only before winning and in
\* manual mode.
MoveKeysAccepted(w, a) == ~w /\ ~a

\* A variant of the movement keys in which a move towards a wall inside the
\* grid opens that wall.
ManualMove_CarvesWall(d) ==
    /\ running
    /\ MoveKeysAccepted(won, auto_mode)
    /\ step_count < MaxSteps
    /\ LET t == <<player[1] + DirDelta(d)[1], player[2] + DirDelta(d)[2]>>
           m == PlayerMove(width, height, maze, player, DirDelta(d)[1], DirDelta(d)[2])
       IN  /\ player' = m.player
           /\ move_history' = IF m.moved THEN Append(move_history, m.player)
                              ELSE move_history
           /\ step_count' = IF m.moved THEN step_count + 1 ELSE step_count
           /\ won' = IF m.player = EndPos(width, height) THEN TRUE ELSE won
           /\ maze' = IF is_valid(width, height, t[1], t[2])
                      THEN SetCell(maze, t, FALSE) ELSE maze
    /\ last_op' = [op |-> "manual", branch |-> "none", fallback |-> "none"]
    /\ UNCHANGED <<width, height, visited, stack, gen_pc, carved, auto_mode,
                   llm_client, running, now, last_llm_call_time, oracle_calls,
                   loop_result, query_log, auto_starts>>

\* handle_events, KEYDOWN of an arrow key or of w/s/a/d (lines 583-601).
ManualMove(d) ==
    /\ running
    /\ MoveKeysAccepted(won, auto_mode)
    /\ step_count < MaxSteps
    /\ LET m == PlayerMove(width, height, maze, player, DirDelta(d)[1], DirDelta(d)[2])
       IN  /\ player' = m.player
           /\ move_history' = IF m.moved THEN Append(move_history, m.player)
                              ELSE move_history
           /\ step_count' = IF m.moved THEN step_count + 1 ELSE step_count
           /\ won' = IF m.player = EndPos(width, height) THEN TRUE ELSE won
    /\ last_op' = [op |-> "manual", branch |-> "none", fallback |-> "none"]
    /\ UNCHANGED <<gen_vars, auto_mode, llm_client, running, now,
                   last_llm_call_time, oracle_calls, loop_result, query_log, auto_starts>>

\* handle_events, KEYDOWN of T (lines 567-574).
ToggleMode ==
    /\ running
    /\ llm_client
    /\ auto_mode' = ~auto_mode
    /\ UNCHANGED <<gen_vars, player, move_history, step_count, won, llm_client,
                   running, now, last_llm_call_time, oracle_calls, last_op,
                   loop_result, query_log, auto_starts>>

\* handle_events, KEYDOWN of R (lines 575-582).
Regenerate ==
    /\ running
    /\ \E g \in Generated[<<width, height>>] :
         /\ maze' = g.maze
         /\ visited' = g.visited
         /\ carved' = g.carved
    /\ player' = player_reset(player)
    /\ won' = FALSE
    /\ move_history' = << <<1, 1>> >>
    /\ step_count' = 0
    /\ last_op' = [op |-> "regen", branch |-> "none", fallback |-> "none"]
    /\ UNCHANGED <<width, height, stack, gen_pc, auto_mode, llm_client, running,
                   now, last_llm_call_time, oracle_calls, loop_result, query_log, auto_starts>>

\* handle_events, QUIT or KEYDOWN of ESCAPE (lines 562-566).
Quit ==
    /\ running
    /\ running' = FALSE
    /\ UNCHANGED <<gen_vars, player, move_history, step_count, won, auto_mode,
                   llm_client, now, last_llm_call_time, oracle_calls, last_op,
                   loop_result, query_log, auto_starts>>

\* time.time() advances between frames.
Tick ==
    /\ running
    /\ now < MaxTime
    /\ now' = now + 1
    /\ UNCHANGED <<gen_vars, player, move_history, step_count, won, auto_mode,
                   llm_client, running, last_llm_call_time, oracle_calls, last_op,
                   loop_result, query_log, auto_starts>>

Next ==
    \/ handle_auto_move
    \/ \E d \in SeqToSet(DirNames) : ManualMove(d)
    \/ ToggleMode
    \/ Regenerate
    \/ Quit
    \/ Tick

Spec == Init /\ [][Next]_vars

(***************************************************************************)
(* Sessions on a 7x5 maze whose passages branch: the smallest size where   *)
(* the player can stand between two unvisited cells equally far from the   *)
(* goal.                                                                   *)
(***************************************************************************)
\* The grids generate() can produce on 7x5 in which some passage has three
\* passage neighbours.
WideGenerated ==
    {g \in Generate(7, 5) :
        \E c \in DOMAIN g.maze :
            /\ ~g.maze[c]
            /\ Cardinality({d \in DOMAIN g.maze :
                               ~g.maze[d] /\ Manhattan(c, d) = 1}) = 3}

\* MazeGame.__init__ in auto mode with a client, on such a grid.
WideInit ==
    /\ width = 7 /\ height = 5
    /\ \E g \in WideGenerated :
         /\ maze = g.maze
         /\ visited = g.visited
         /\ carved = g.carved
    /\ stack = <<>>
    /\ gen_pc = "done"
    /\ player = StartPos
    /\ move_history = << <<1, 1>> >>
    /\ step_count = 0
    /\ won = FALSE
    /\ running = TRUE
    /\ auto_mode = TRUE /\ llm_client = TRUE
    /\ now = llm_call_interval
    /\ last_llm_call_time = 0
    /\ oracle_calls = 0
    /\ last_op = [op |-> "init", branch |-> "none", fallback |-> "none"]
    /\ loop_result = <<>>
    /\ query_log = <<>>
    /\ auto_starts = <<>>

WideNext ==
    \/ handle_auto_move
    \/ \E d \in SeqToSet(DirNames) : ManualMove(d)
    \/ ToggleMode
    \/ Tick

SpecWide == WideInit /\ [][WideNext]_vars

(***************************************************************************)
(* The navigation methods of MazeGame called directly: move_to_position    *)
(* with any target, and the four queries, whose calls and return values    *)
(* are logged.                                                             *)
(***************************************************************************)
\* The sizes of the sessions the methods are called on.
NavDims == {<<3, 3>>, <<5, 3>>}

\* The targets move_to_position is called with, relative to the player p: the
\* cell itself, the four neighbours and the four cells two steps away.
NavTargets(p) == {<<p[1] + d[1], p[2] + d[2]>> : d \in ProposalOffsets}

\* MazeGame.__init__ in manual mode without a client.
NavInit ==
    /\ \E d \in NavDims : width = d[1] /\ height = d[2]
    /\ \E g \in Generate(width, height) :
         /\ maze = g.maze
         /\ visited = g.visited
         /\ carved = g.carved
    /\ stack = <<>>
    /\ gen_pc = "done"
    /\ player = StartPos
    /\ move_history = << <<1, 1>> >>
    /\ step_count = 0
    /\ won = FALSE
    /\ running = TRUE
    /\ auto_mode = FALSE /\ llm_client = FALSE
    /\ now = llm_call_interval
    /\ last_llm_call_time = 0
    /\ oracle_calls = 0
    /\ last_op = [op |-> "init", branch |-> "none", fallback |-> "none"]
    /\ loop_result = <<>>
    /\ query_log = <<>>
    /\ auto_starts = <<>>

\* self.move_to_position(target_x, target_y)
NavMoveTo(target) ==
    /\ step_count < MaxSteps
    /\ LET r == move_to_position(width, height, maze, player, move_history,
                                 step_count, target)
       IN  /\ player' = r.player
           /\ move_history' = r.move_history
           /\ step_count' = r.step_count
           /\ last_op' = [op |-> "move_to_position",
                          branch |-> IF r.moved THEN "returned_true" ELSE "returned_false",
                          fallback |-> "none"]
    /\ query_log' = <<>>
    /\ UNCHANGED <<auto_starts, gen_vars, won, auto_mode, llm_client, running, now,
                   last_llm_call_time, oracle_calls, loop_result>>

\* The log after a query returned `result`: a call that repeats the only
\* logged call is appended to it, any other call starts the log afresh.
Logged(name, result) ==
    LET entry == [name |-> name, args |-> <<>>, result |-> <<result>>]
    IN  IF Len(query_log) = 1 /\ query_log[1].name = name
        THEN Append(query_log, entry)
        ELSE <<entry>>

\* A variant of detect_loop that keeps only the window in the history.
DetectLoopCall_Truncates ==
    /\ query_log' = Logged("detect_loop", detect_loop(move_history, DefaultLookback))
    /\ move_history' = Trailing(move_history, Min({DefaultLookback, Len(move_history)}))
    /\ UNCHANGED <<auto_starts, gen_vars, player, step_count, won, auto_mode, llm_client, running,
                   now, last_llm_call_time, oracle_calls, last_op, loop_result>>

\* self.get_available_directions()
GetAvailableDirectionsCall ==
    /\ query_log' = Logged("get_available_directions",
                           get_available_directions(width, height, maze, player))
    /\ UNCHANGED <<auto_starts, gen_vars, game_vars, loop_result>>

\* self.get_unvisited_adjacent_positions()
GetUnvisitedAdjacentPositionsCall ==
    /\ query_log' = Logged("get_unvisited_adjacent_positions",
                           get_unvisited_adjacent_positions(width, height, maze,
                                                            player, move_history))
    /\ UNCHANGED <<auto_starts, gen_vars, game_vars, loop_result>>

\* self.detect_loop()
DetectLoopCall ==
    /\ query_log' = Logged("detect_loop", detect_loop(move_history, DefaultLookback))
    /\ UNCHANGED <<auto_starts, gen_vars, game_vars, loop_result>>

\* self.get_recent_movement_pattern()
GetRecentMovementPatternCall ==
    /\ query_log' = Logged("get_recent_movement_pattern",
                           get_recent_movement_pattern(move_history, DefaultPatternLookback))
    /\ UNCHANGED <<auto_starts, gen_vars, game_vars, loop_result>>

NavNext ==
    \/ \E t \in NavTargets(player) : NavMoveTo(t)
    \/ GetAvailableDirectionsCall
    \/ GetUnvisitedAdjacentPositionsCall
    \/ DetectLoopCall
    \/ GetRecentMovementPatternCall

SpecNav == NavInit /\ [][NavNext]_vars

(***************************************************************************)
(* Auto mode without end: sessions in which only the frame loop runs, for  *)
(* as long as it likes.  The code's history, counters and clock grow       *)
(* without bound; the state kept here is what handle_auto_move can observe *)
(* of them:                                                                *)
(*  - of move_history, the trailing DefaultLookback entries and, of the    *)
(*    older entries, the last occurrence of each cell that does not occur  *)
(*    again later (the set of visited cells, the window of detect_loop and *)
(*    whether the length reaches the window are unchanged by this);        *)
(*  - of the clock, the time since last_llm_call_time, up to the interval; *)
(*  - of step_count, the value up to MaxSteps; the oracle calls are not   *)
(*    counted.                                                             *)
(***************************************************************************)
\* The history without the entries older than the window that occur again later.
Forget(hist) ==
    LET n == Len(hist)
        kept == SelectSeq([i \in 1..n |-> i],
                          LAMBDA i : \/ i > n - DefaultLookback
                                     \/ \A j \in (i + 1)..n : hist[j] # hist[i])
    IN  [k \in 1..Len(kept) |-> hist[kept[k]]]

\* The oracle answers explored: a rule-abiding oracle, which never raises and
\* always proposes a passage next to the player p.
OscAnswers(w, h, mz, p) ==
    {[kind |-> "pos", pos |-> <<p[1] + DirDelta(d)[1], p[2] + DirDelta(d)[2]>>] :
        d \in SeqToSet(get_available_directions(w, h, mz, p))}

\* MazeGame.__init__ in auto mode with a client on the 7x3 corridor, whose goal
\* (5,1) is the far end.
OscInit ==
    /\ width = 7 /\ height = 3
    /\ \E g \in Generate(7, 3) :
         /\ maze = g.maze
         /\ visited = g.visited
         /\ carved = g.carved
    /\ stack = <<>>
    /\ gen_pc = "done"
    /\ player = StartPos
    /\ move_history = << <<1, 1>> >>
    /\ step_count = 0
    /\ won = FALSE
    /\ running = TRUE
    /\ auto_mode = TRUE /\ llm_client = TRUE
    /\ now = llm_call_interval
    /\ last_llm_call_time = 0
    /\ oracle_calls = 0
    /\ last_op = [op |-> "init", branch |-> "none", fallback |-> "none"]
    /\ loop_result = <<>>
    /\ query_log = <<>>
    /\ auto_starts = <<>>

\* handle_auto_move called by run() once the interval has elapsed.
OscAutoMove ==
    /\ running
    /\ auto_mode /\ ~won /\ llm_client
    /\ IntervalElapsed(now, last_llm_call_time)
    /\ \E ans \in OscAnswers(width, height, maze, player) :
       \E pick \in Picks(width, height, maze, player, move_history) :
       \E r \in {AutoMove(width, height, maze, player, move_history, step_count, ans, pick)} :
             /\ player' = r.player
             /\ move_history' = Forget(r.move_history)
             /\ step_count' = Min({r.step_count, MaxSteps})
             /\ won' = IF r.branch # "raise" /\ r.player = EndPos(width, height)
                       THEN TRUE ELSE won
             /\ last_op' = [op |-> "auto", branch |-> r.branch, fallback |-> r.fallback]
    /\ now' = 0
    /\ last_llm_call_time' = 0
    /\ UNCHANGED <<gen_vars, auto_mode, llm_client, running, oracle_calls,
                   loop_result, query_log, auto_starts>>

\* time.time() advances between frames.
OscTick ==
    /\ running
    /\ now - last_llm_call_time < llm_call_interval
    /\ now' = now + 1
    /\ UNCHANGED <<gen_vars, player, move_history, step_count, won, auto_mode,
                   llm_client, running, last_llm_call_time, oracle_calls, last_op,
                   loop_result, query_log, auto_starts>>

OscNext == OscAutoMove \/ OscTick

\* run() calls handle_auto_move in every frame and the clock keeps advancing.
SpecOsc ==
    /\ OscInit
    /\ [][OscNext]_vars
    /\ WF_vars(OscAutoMove)
    /\ WF_vars(OscTick)

(***************************************************************************)
(* detect_loop on its own: histories of every shape are built entry by     *)
(* entry and handed to detect_loop with its default window.                *)
(***************************************************************************)
\* The offsets from one history entry to the next: right, left, down, and
\* jumps of three cells either way (non-adjacent entries, as a relocation leaves).
LoopOffsets == {<<1, 0>>, <<-1, 0>>, <<0, 1>>, <<3, 0>>, <<-3, 0>>}

LoopInit ==
    /\ width = 3 /\ height = 3
    /\ maze = AllWalls(3, 3)
    /\ visited = NoneVisited(3, 3)
    /\ stack = <<>>
    /\ gen_pc = "new"
    /\ carved = 0
    /\ player = <<0, 0>>
    /\ move_history = << <<0, 0>> >>
    /\ step_count = 0
    /\ won = FALSE
    /\ auto_mode = FALSE
    /\ llm_client = FALSE
    /\ running = FALSE
    /\ now = 0
    /\ last_llm_call_time = 0
    /\ oracle_calls = 0
    /\ last_op = [op |-> "none", branch |-> "none", fallback |-> "none"]
    /\ loop_result = <<>>
    /\ query_log = <<>>
    /\ auto_starts = <<>>

\* One more entry is appended to the history.
LoopAppend ==
    /\ Len(move_history) < MaxLoopLen
    /\ \E d \in LoopOffsets :
         LET c == <<Last(move_history)[1] + d[1], Last(move_history)[2] + d[2]>>
         IN  /\ move_history' = Append(move_history, c)
             /\ player' = c
    /\ loop_result' = <<>>
    /\ UNCHANGED <<query_log, auto_starts, gen_vars, step_count, won, auto_mode, llm_client, running, now,
                   last_llm_call_time, oracle_calls, last_op>>

\* self.detect_loop() is called on the current history.
LoopDetect ==
    /\ loop_result = <<>>
    /\ loop_result' = <<detect_loop(move_history, DefaultLookback)>>
    /\ UNCHANGED <<gen_vars, game_vars, query_log, auto_starts>>

LoopNext == LoopAppend \/ LoopDetect

SpecLoop == LoopInit /\ [][LoopNext]_vars

(***************************************************************************)
(* Properties                                                              *)
(***************************************************************************)
\* The cells next to p, in UP, DOWN, LEFT, RIGHT order.
Adjacent(p) == << <<p[1], p[2] - 1>>, <<p[1], p[2] + 1>>, <<p[1] - 1, p[2]>>, <<p[1] + 1, p[2]>> >>

Passable(c) == c \in DOMAIN maze /\ ~maze[c]

\* The unvisited passable neighbours of the player, as a set.
UnvisitedNeighbours ==
    {c \in SeqToSet(Adjacent(player)) : Passable(c) /\ c \notin SeqToSet(move_history)}

PassableNeighbours == {c \in SeqToSet(Adjacent(player)) : Passable(c)}

\* C1: in every reachable state of a session, step_count = len(move_history) - 1.
C1_StepCountIsHistoryLength == step_count = Len(move_history) - 1

\* The step is an auto step that accepted an oracle proposal which is not at
\* Manhattan distance 1 from the player.
NonAdjacentProposalAccepted ==
    \E ans \in OracleAnswers(player) :
        /\ ans.kind = "pos"
        /\ Manhattan(player, ans.pos) # 1
        /\ AutoStepWith(ans)
        /\ last_op'.branch = "oracle"
        /\ last_op'.fallback = "none"

\* C2: whenever an entry is appended to move_history it is at Manhattan
\* distance 1 from the entry before it, unless it was appended by accepting a
\* non-adjacent oracle proposal.
C2_HistoryEntriesAdjacent ==
    [][Len(move_history') = Len(move_history) + 1
          => \/ Manhattan(Last(move_history), Last(move_history')) = 1
             \/ NonAdjacentProposalAccepted]_vars

\* An auto step in which get_next_move raised.
RaiseStep == last_op'.branch = "raise" /\ handle_auto_move

Alternates(hist) ==
    /\ Len(hist) >= 2
    /\ hist[1] # hist[2]
    /\ \A i \in 3..Len(hist) : hist[i] = hist[i - 2]

\* The last n entries of the history lie inside a 3x3 bounding box.
TrailingInBox(hist, n) ==
    /\ Len(hist) >= n
    /\ \A i, j \in (Len(hist) - n + 1)..Len(hist) :
         /\ hist[i][1] - hist[j][1] <= 2
         /\ hist[i][2] - hist[j][2] <= 2

C5_TrailingSixConfined ==
    (loop_result # <<>> /\ TrailingInBox(move_history, 6)) => loop_result = <<TRUE>>

\* C5 as amended: whenever the history has at least 8 entries and its trailing
\* 8 entries (the default window, which the confinement check shares with the
\* repetition check) lie inside a 3x3 bounding box, detect_loop returns true.
C5_TrailingEightConfined ==
    (loop_result # <<>> /\ TrailingInBox(move_history, 8)) => loop_result = <<TRUE>>

\* detect_loop returned true on a window of 8 pairwise distinct cells that
\* span a full 3x3 box, where no repetition exists.
C5_Witness ==
    /\ loop_result = <<TRUE>>
    /\ TrailingInBox(move_history, 8)
    /\ Cardinality(SeqToSet(Trailing(move_history, 8))) = 8
    /\ \E i, j \in 1..Len(move_history) : move_history[i][1] - move_history[j][1] = 2

\* c is the unvisited passable neighbour of the player with the least
\* Manhattan distance to the goal, the first such in UP, DOWN, LEFT, RIGHT order.
NearestUnvisitedFirst(c) ==
    LET adj == Adjacent(player)
        goal == <<width - 2, height - 2>>
    IN  \E i \in 1..4 :
            /\ c = adj[i]
            /\ c \in UnvisitedNeighbours
            /\ \A j \in 1..4 :
                 adj[j] \in UnvisitedNeighbours =>
                     \/ Manhattan(c, goal) < Manhattan(adj[j], goal)
                     \/ Manhattan(c, goal) = Manhattan(adj[j], goal) /\ i <= j

\* An auto step taken while the loop signal is true and the player has an
\* unvisited passable neighbour.
OverrideCase ==
    /\ handle_auto_move
    /\ detect_loop(move_history, DefaultLookback)
    /\ UnvisitedNeighbours # {}

\* C6: in an auto step where the loop signal is true and an unvisited adjacent
\* passable cell exists, the oracle is not consulted and the agent moves to
\* the unvisited adjacent cell nearest the goal (first in UP, DOWN, LEFT, RIGHT
\* order on ties); the visited set grows by exactly one cell.
C6_LoopOverrideMovesToNearestUnvisited ==
    [][OverrideCase =>
          /\ oracle_calls' = oracle_calls
          /\ NearestUnvisitedFirst(player')
          /\ move_history' = Append(move_history, player')
          /\ step_count' = step_count + 1
          /\ Cardinality(SeqToSet(move_history'))
                = Cardinality(SeqToSet(move_history)) + 1]_vars

\* An override step has been taken from a cell with two unvisited passable
\* neighbours equally far from the goal: the history holds the 8 entries the
\* loop signal needs and the neighbour the override chose, the other one is
\* still unvisited.
C6_Witness ==
    /\ last_op.op = "auto"
    /\ last_op.branch = "override"
    /\ Len(move_history) >= 9
    /\ player = Last(move_history)
    /\ Last(move_history) \notin SeqToSet(Front(move_history))
    /\ LET prev == move_history[Len(move_history) - 1]
           goal == <<width - 2, height - 2>>
       IN  \E o \in Cells(width, height) :
              /\ Manhattan(o, prev) = 1
              /\ ~maze[o]
              /\ o # player
              /\ o \notin SeqToSet(move_history)
              /\ Manhattan(o, goal) = Manhattan(player, goal)

\* An auto step in which the oracle was consulted and proposed a wall or an
\* off-grid cell while the player had an unvisited passable neighbour.
WallProposalStep(ans) ==
    /\ ans.kind = "pos"
    /\ ~Passable(ans.pos)
    /\ UnvisitedNeighbours # {}
    /\ AutoStepWith(ans)
    /\ last_op'.branch = "oracle"

\* C7: in an auto step where the oracle proposes a wall or out-of-bounds cell,
\* the proposed move fails without changing position, history or step counter,
\* and if an unvisited adjacent passable cell exists the step moves to the one
\* nearest the goal: over the step the history gains exactly one entry and the
\* step counter increases by exactly one.
C7_WallProposalFallsBackToUnvisited ==
    [][\A ans \in OracleAnswers(player) :
          WallProposalStep(ans) =>
              LET r1 == move_to_position(width, height, maze, player, move_history,
                                         step_count, ans.pos)
              IN  /\ ~r1.moved
                  /\ r1.player = player
                  /\ r1.move_history = move_history
                  /\ r1.step_count = step_count
                  /\ NearestUnvisitedFirst(player')
                  /\ move_history' = Append(move_history, player')
                  /\ step_count' = step_count + 1]_vars

\* An auto step's proposal was rejected and the step fell back to an
\* unvisited neighbour.
C7_Witness ==
    /\ last_op = [op |-> "auto", branch |-> "oracle", fallback |-> "unvisited"]
    /\ oracle_calls >= 1
    /\ player = Last(move_history)

\* C8: after a regeneration, whatever the state it was made from, step_count
\* is 0, move_history is [(1,1)], the player is at the start cell (1,1), won is
\* false, and the grid is one that generate() produces.
C8_RegenerateResets ==
    last_op.op = "regen" =>
        /\ step_count = 0
        /\ move_history = << <<1, 1>> >>
        /\ player = <<1, 1>>
        /\ won = FALSE
        /\ \E g \in Generate(width, height) : maze = g.maze

\* A regeneration has been made in auto mode after the oracle had been asked.
C8_Witness ==
    /\ last_op.op = "regen"
    /\ oracle_calls >= 1
    /\ auto_mode
    /\ step_count = 0

\* The passage cells of the grid.
PassageCells == {c \in DOMAIN maze : ~maze[c]}

\* The cells of S that are 4-adjacent to c.
NeighboursIn(S, c) == {d \in S : Manhattan(c, d) = 1}

\* Flood fill: the cells of S reachable from the cells in `seen` through
\* 4-adjacent cells of S.
RECURSIVE Flood(_, _)
Flood(S, seen) ==
    LET more == {d \in S \ seen : \E c \in seen : Manhattan(c, d) = 1}
    IN  IF more = {} THEN seen ELSE Flood(S, seen \cup more)

\* Repeatedly removing the cells of S with at most one neighbour left in S
\* leaves nothing exactly when the adjacency graph of S has no cycle.
RECURSIVE StripLeaves(_)
StripLeaves(S) ==
    LET leaves == {c \in S : Cardinality(NeighboursIn(S, c)) <= 1}
    IN  IF leaves = {} THEN S ELSE StripLeaves(S \ leaves)

\* The odd-coordinate cells: the nodes of the graph generate() carves.
CoarseNodes == {c \in DOMAIN maze : c[1] % 2 = 1 /\ c[2] % 2 = 1}

\* generate() has returned on a grid of odd width and height >= 5.
GeneratedAtLeastFive == gen_pc = "done" /\ width >= 5 /\ height >= 5

\* C9: for every maze generate() produces with odd width and height >= 5,
\* whatever the random choices, every passage cell is reachable from the start
\* cell (1,1) through 4-adjacent passage cells.
C9_GeneratedMazeConnected ==
    GeneratedAtLeastFive => Flood(PassageCells, {<<1, 1>>}) = PassageCells

\* generate() has returned on a 7x7 grid whose passages branch: some passage
\* has three passage neighbours.
C9_Witness ==
    /\ gen_pc = "done"
    /\ width = 7 /\ height = 7
    /\ \E c \in PassageCells : Cardinality(NeighboursIn(PassageCells, c)) = 3

\* C10: for every maze generate() produces with odd width and height >= 5,
\* whatever the random choices, the number of remove_wall calls is the number
\* of odd-coordinate nodes minus 1, every such node is visited, and the
\* passages contain no cycle.
C10_GeneratedMazeIsSpanningTree ==
    GeneratedAtLeastFive =>
        /\ carved = Cardinality(CoarseNodes) - 1
        /\ \A c \in CoarseNodes : visited[c]
        /\ StripLeaves(PassageCells) = {}

\* generate() has returned on a 7x5 grid after five remove_wall calls.
C10_Witness ==
    /\ gen_pc = "done"
    /\ width = 7 /\ height = 5
    /\ carved = 5
    /\ Cardinality(PassageCells) = 11

\* C11: after generate() on any odd width and height >= 3, the start cell
\* (1,1) and the goal cell (width-2, height-2) are both passages, whatever
\* random choices the carving made.
C11_StartAndGoalArePassages ==
    (gen_pc = "done" /\ width >= 3 /\ height >= 3) =>
        /\ ~maze[<<1, 1>>]
        /\ ~maze[<<width - 2, height - 2>>]

\* generate() has returned on a 7x3 grid, where the goal (5,1) is the far end
\* of the single corridor.
C11_Witness ==
    /\ gen_pc = "done"
    /\ width = 7 /\ height = 3
    /\ carved = 2
    /\ ~maze[<<5, 1>>]

\* C12: is_wall(x, y) is defined for all integers x and y, negative and
\* beyond the grid included: it returns true for every coordinate outside
\* [0,width) x [0,height) and the stored wall flag otherwise, and it changes
\* no state.
C12_IsWallTotalAndPure ==
    [][\A x \in IsWallArgs(width), y \in IsWallArgs(height) :
          IsWallCall(x, y) =>
              /\ query_log'[1].result =
                     << IF x < 0 \/ x >= width \/ y < 0 \/ y >= height
                        THEN TRUE
                        ELSE maze[<<x, y>>] >>
              /\ UNCHANGED <<width, height, maze, visited, player, move_history,
                             step_count, won>>]_vars

\* is_wall has been called with a negative x and a y beyond the last row of a
\* finished grid, and returned true.
C12_Witness ==
    /\ gen_pc = "done"
    /\ Len(query_log) = 1
    /\ query_log[1].name = "is_wall"
    /\ query_log[1].args = <<0 - 2, height + 1>>
    /\ query_log[1].result = <<TRUE>>

QueryCall ==
    \/ GetAvailableDirectionsCall
    \/ GetUnvisitedAdjacentPositionsCall
    \/ DetectLoopCall
    \/ GetRecentMovementPatternCall

C14_ManualMoveIsMoveToAdjacent ==
    [][\A d \in SeqToSet(DirNames) :
          ManualMove(d) =>
              LET t == <<player[1] + DirDelta(d)[1], player[2] + DirDelta(d)[2]>>
                  r == move_to_position(width, height, maze, player, move_history,
                                        step_count, t)
              IN  /\ ~auto_mode /\ ~won
                  /\ player' = r.player
                  /\ move_history' = r.move_history
                  /\ step_count' = r.step_count
                  /\ oracle_calls' = oracle_calls
                  /\ IF is_wall(width, height, maze, t[1], t[2])
                     THEN UNCHANGED <<player, move_history, step_count>>
                     ELSE /\ player' = t
                          /\ move_history' = Append(move_history, t)
                          /\ step_count' = step_count + 1]_vars

\* Manual moves alone have taken the player two cells away from the start and
\* back to a cell visited before.
C14_Witness ==
    /\ last_op.op = "manual"
    /\ ~auto_mode
    /\ oracle_calls = 0
    /\ Len(move_history) >= 4
    /\ step_count = Len(move_history) - 1
    /\ player = Last(move_history)
    /\ Last(move_history) \in SeqToSet(Front(move_history))
    /\ \E i \in 1..Len(move_history) : Manhattan(move_history[i], <<1, 1>>) = 2

\* An auto step taken from a cell whose four neighbours are all walls.
IsolatedAutoStep ==
    /\ handle_auto_move
    /\ get_available_directions(width, height, maze, player) = <<>>

\* C15: in an auto step taken from a cell whose four neighbours are all
\* walls, no move is applied and the step counter and the history are
\* unchanged, for every possible oracle answer.
C15_IsolatedCellAppliesNoMove ==
    [][IsolatedAutoStep => UNCHANGED <<player, move_history, step_count>>]_vars

\* The last handler that ran was an auto step that applied a move, and the
\* history ends A, B, A, B for two distinct cells with the player on the last.
Alternating ==
    LET n == Len(move_history)
    IN  /\ ~won
        /\ last_op.op = "auto"
        /\ last_op.branch # "raise"
        /\ last_op.fallback # "stuck"
        /\ n >= 4
        /\ move_history[n - 3] = move_history[n - 1]
        /\ move_history[n - 2] = move_history[n]
        /\ move_history[n - 1] # move_history[n]
        /\ player = move_history[n]

\* C16: in auto mode with an arbitrary oracle the agent cannot oscillate
\* forever: no run of auto steps keeps alternating between the same two cells
\* from some point on without entering a new cell or reaching the goal.
C16_NoEndlessOscillation == []<>(~Alternating)

\* C17: oracle invocations are rate limited and never overlap: a step makes
\* at most one decision request, which has returned or raised when the step
\* ends, and the start times of any two consecutive auto steps that get past
\* the interval check (whether they call the oracle, take the loop override,
\* or fail) are at least llm_call_interval apart.
C17_AutoStepsRateLimited ==
    /\ [](\A i \in 1..(Len(auto_starts) - 1) :
             auto_starts[i + 1] - auto_starts[i] >= llm_call_interval)
    /\ [][oracle_calls' \in {oracle_calls, oracle_calls + 1}]_vars
    /\ [][handle_auto_move =>
             /\ Last(auto_starts') = now
             /\ last_llm_call_time' = now]_vars

\* Two auto steps have got past the interval check exactly llm_call_interval
\* apart, the second one with a raising oracle.
C17_Witness ==
    /\ Len(auto_starts) = 2
    /\ auto_starts[2] - auto_starts[1] = llm_call_interval
    /\ last_op.op = "auto"
    /\ last_op.branch = "raise"
    /\ oracle_calls = 2

\* The trailing n entries of hist are pairwise distinct and each step between
\* them increases x by 1 or y by 1.
MonotoneTail(hist, n) ==
    LET t == Trailing(hist, n)
    IN  /\ \A i \in 1..(n - 1) :
              \/ t[i + 1] = <<t[i][1] + 1, t[i][2]>>
              \/ t[i + 1] = <<t[i][1], t[i][2] + 1>>
        /\ \A i, j \in 1..n : i # j => t[i] # t[j]

\* C19: for any history of length >= 8 whose trailing 8 entries are pairwise
\* distinct cells forming a monotone axis-aligned-step path (each step
\* increases x by 1 or y by 1, no revisits), detect_loop returns false.
C19_MonotonePathIsNoLoop ==
    (/\ loop_result # <<>>
     /\ Len(move_history) >= 8
     /\ MonotoneTail(move_history, 8)) => loop_result = <<FALSE>>

\* detect_loop has returned on a 9-entry history that starts with a step to
\* the left and goes on with a staircase of steps right and down.
C19_Witness ==
    /\ loop_result = <<FALSE>>
    /\ Len(move_history) = 9
    /\ move_history[2] = <<0 - 1, 0>>
    /\ MonotoneTail(move_history, 8)
    /\ Last(move_history)[1] - move_history[2][1] >= 3
    /\ Last(move_history)[2] >= 3

\* C20: constructing or generating a maze with an even width or height, or a
\* dimension below 3, is rejected with an error rather than yielding a maze:
\* generate() never returns on such a grid.
C20_EvenDimensionsRejected ==
    gen_pc = "done" =>
        /\ width % 2 = 1 /\ height % 2 = 1
        /\ width >= 3 /\ height >= 3


\* C21: in every reachable state of a session the agent's position equals
\* the last entry of move_history, after the random fallback as well as after
\* oracle, override and manual moves.
C21_PositionIsLastHistoryEntry == player = Last(move_history)

\* An auto step with the oracle answer ans that ended in the random fallback.
RandomFallbackStep(ans) ==
    /\ last_op'.fallback = "random"
    /\ AutoStepWith(ans)

\* C22: the random fallback of an auto step is taken only when the proposed
\* move failed and the agent has no unvisited adjacent passable cell; it then
\* moves the agent exactly one step to one of the currently passable adjacent
\* cells, never into a wall and never staying put.
C22_RandomFallbackMovesOneStep ==
    [][\A ans \in OracleAnswers(player) :
          RandomFallbackStep(ans) =>
              /\ ans.kind = "pos"
              /\ ~move_to_position(width, height, maze, player, move_history,
                                   step_count, ans.pos).moved
              /\ UnvisitedNeighbours = {}
              /\ player' \in PassableNeighbours
              /\ Manhattan(player, player') = 1
              /\ ~maze[player']
              /\ player' # player]_vars

\* An auto step has taken the random fallback from a cell with two passable
\* neighbours, both visited before, and the player stands on one of them.
C22_Witness ==
    /\ last_op = [op |-> "auto", branch |-> "oracle", fallback |-> "random"]
    /\ Passable(player)
    /\ \E c \in SeqToSet(move_history) :
          /\ Manhattan(c, player) = 1
          /\ Cardinality({d \in SeqToSet(Adjacent(c)) : Passable(d)}) = 2
          /\ \A d \in SeqToSet(Adjacent(c)) : Passable(d) => d \in SeqToSet(move_history)

\* C23: in every reachable state of a session the agent's position is a
\* passage cell of the current grid (inside bounds and not a wall), under any
\* sequence of manual moves, oracle proposals, fallbacks and regenerations.
C23_PlayerOnPassage ==
    /\ is_valid(width, height, player[1], player[2])
    /\ ~maze[player]

\* An auto step has accepted an oracle proposal two cells away from the
\* player, which now stands on that passage.
C23_Witness ==
    /\ last_op = [op |-> "auto", branch |-> "oracle", fallback |-> "none"]
    /\ Len(move_history) >= 2
    /\ Manhattan(move_history[Len(move_history) - 1], Last(move_history)) = 2
    /\ player = Last(move_history)
    /\ Passable(player)

\* C24: for mazes whose start differs from the goal, after every completed
\* manual key event or auto step, won is true if and only if the agent's
\* position equals the goal cell (width-2, height-2).
C24_WonIffOnGoal ==
    (/\ <<width - 2, height - 2>> # <<1, 1>>
     /\ last_op.op \in {"manual", "auto"})
        => (won <=> player = <<width - 2, height - 2>>)

\* A manual move has put the player on the goal (3,3) of a 5x5 maze and the
\* session is won.
C24_Witness ==
    /\ width = 5 /\ height = 5
    /\ last_op.op = "manual"
    /\ player = <<3, 3>>
    /\ won
    /\ step_count >= 4

\* C25: once won is true, no manual move and no auto step changes the agent's
\* position, move_history or step_count, and the oracle is not called, until a
\* regeneration occurs; only regeneration clears won.
C25_WonFreezesSession ==
    [][won => \/ Regenerate /\ ~won'
              \/ /\ won'
                 /\ UNCHANGED <<player, move_history, step_count, oracle_calls, maze>>]_vars

\* The session was won by an auto step, it is still in auto mode with a
\* client, and the call interval has elapsed again.
C25_Witness ==
    /\ won
    /\ last_op.op = "auto"
    /\ auto_mode /\ llm_client /\ running
    /\ now - last_llm_call_time >= llm_call_interval
    /\ step_count < MaxSteps

\* After a failed oracle call the next auto step is due: the session is still
\* running in auto mode, not won, and the call interval has elapsed.
DueAfterFailure ==
    /\ last_op.op = "auto"
    /\ last_op.branch = "raise"
    /\ running /\ auto_mode /\ ~won
    /\ step_count < MaxSteps
    /\ now - last_llm_call_time >= llm_call_interval

\* C26: when the oracle call of an auto step fails, the failure is contained:
\* no exception leaves handle_auto_move and running stays true, the grid is
\* untouched, and a further auto step is taken up once the call interval has
\* elapsed.
C26_OracleFailureContained ==
    /\ [][RaiseStep =>
             /\ running'
             /\ UNCHANGED <<width, height, maze, auto_mode, llm_client>>
             /\ last_llm_call_time' = now]_vars
    /\ [](DueAfterFailure => ENABLED handle_auto_move)

\* On a 5-wide maze the oracle has been called twice and one step has been
\* applied, by the second call: the first call failed, and the step after it
\* asked the oracle again and moved.
C26_Witness ==
    /\ width = 5
    /\ running
    /\ oracle_calls = 2
    /\ Len(auto_starts) = 2
    /\ step_count = 1
    /\ last_op = [op |-> "auto", branch |-> "oracle", fallback |-> "none"]

\* C27: after generation completes, the grid is never modified by any move,
\* query, mode toggle or auto step; the wall/passage matrix changes only when
\* a regeneration replaces the whole grid with a newly generated one.
C27_GridChangesOnlyByRegeneration ==
    [][(gen_pc = "done" /\ maze' # maze) =>
          /\ Regenerate
          /\ \E g \in Generate(width, height) : maze' = g.maze]_vars

\* A 5x5 session has seen manual moves, a mode toggle and an auto step that
\* asked the oracle, and its grid is still one that generate() produces.
C27_Witness ==
    /\ width = 5 /\ height = 5
    /\ last_op.op = "auto"
    /\ oracle_calls >= 1
    /\ step_count >= 3
    /\ step_count = Len(move_history) - 1
    /\ \E g \in Generate(width, height) : maze = g.maze

\* C28: generate() terminates for every odd width and height >= 3 under every
\* sequence of random neighbour choices: each loop iteration either marks a
\* previously unvisited odd-coordinate node or pops the stack, and the loop
\* ends with an empty stack.
C28_GenerateTerminates ==
    /\ <>(gen_pc = "done")
    /\ [](gen_pc = "done" => stack = <<>>)
    /\ [][(GenCarve \/ GenBacktrack) =>
             \/ \E c \in CoarseNodes :
                   /\ ~visited[c]
                   /\ visited' = SetCell(visited, c, TRUE)
                   /\ stack' = Append(stack, c)
             \/ /\ stack' = Front(stack)
                /\ visited' = visited]_vars

\* generate() has returned on a 7x7 grid with an empty stack after marking
\* all nine odd-coordinate nodes.
C28_Witness ==
    /\ gen_pc = "done"
    /\ stack = <<>>
    /\ width = 7 /\ height = 7
    /\ carved = 8
    /\ \A c \in CoarseNodes : visited[c]

\* The cells on the outer border of the grid.
BorderCells ==
    {c \in DOMAIN maze : c[1] = 0 \/ c[1] = width - 1 \/ c[2] = 0 \/ c[2] = height - 1}

\* C29: for every maze generated with odd width and height >= 3, every cell
\* on the outer border (x = 0, x = width-1, y = 0 or y = height-1) is a wall,
\* so no move can ever place the agent on a border cell.
C29_BorderIsWall ==
    /\ \A c \in BorderCells : maze[c]
    /\ player \notin BorderCells

\* An auto step has put the player on the cell (3,3) of a 5x5 maze, which
\* touches the right and the bottom border.
C29_Witness ==
    /\ width = 5 /\ height = 5
    /\ last_op.op = "auto"
    /\ player = <<3, 3>>
    /\ maze[<<4, 3>>] /\ maze[<<3, 4>>]

\* The names of the last n steps of the history, oldest first.
TrailingSteps(hist, n) ==
    [i \in 1..n |-> StepName(hist[Len(hist) - n + i - 1], hist[Len(hist) - n + i])]

\* The last six steps of the history repeat three pairwise distinct step
\* names: A, B, C, A, B, C.
ThreeCycle(hist) ==
    /\ Len(hist) >= 7
    /\ LET d == TrailingSteps(hist, 6)
       IN  /\ d[1] = d[4] /\ d[2] = d[5] /\ d[3] = d[6]
           /\ Cardinality({d[1], d[2], d[3]}) = 3

\* C30: get_recent_movement_pattern called with its default window returns a
\* warning whenever the trailing moves form the A-B-C-A-B-C repetition, just
\* as it does for A-B-A-B.
C30_ThreeCyclePatternFlagged ==
    (/\ Len(query_log) >= 1
     /\ query_log[1].name = "get_recent_movement_pattern"
     /\ ThreeCycle(move_history))
        => query_log[1].result[1].kind \in {"warning_last_4", "warning_last_6"}

=============================================================================
